---------------------------- MODULE Spec2Model ----------------------------
(***************************************************************************)
(* A model of the PiCom push-to-talk intercom bridge: the talk controller  *)
(* of PiComService (_txEvent, _latchLogic, unLatchMic), its health report  *)
(* (_errorState, _healthCheckCallback), its orchestration (setup,          *)
(* reconfigureMumbleAndReconnect) and the MumbleClientWrapper session      *)
(* (connect, disconnect, the channel joiner).                              *)
(*                                                                         *)
(* Times are milliseconds, as the code's Date arithmetic has them.  The    *)
(* clock advances in steps of TickMs.                                      *)
(***************************************************************************)
EXTENDS Integers, Sequences, FiniteSets, TLC

\* ------------------------------------------------------------ constants

UP == "UP"
DOWN == "DOWN"
LATCH_TIME_MS == 500
HEALTH_CHECK_MS == 1000
RETRY_LIMIT == 1000

AUDIO_NOT_SETUP == "NOT_CONFIGURED"
AUDIO_SETUP_ERROR == "AUDIO_SETUP_ERROR"
AUDIO_CONFIGURED == "CONFIGURED_SUCCESSFULLY"

STATUS_NORMAL == "NORMAL"
STATUS_WARN == "WARNING"
STATUS_ERROR == "ERROR"

\* ---------------------------------------------------------------- bounds

\* The clock stops after MaxTicks steps of TickMs milliseconds each.
MaxTicks == 6
TickMs == LATCH_TIME_MS \div 2
MaxTime == MaxTicks * TickMs

\* The session objects a behaviour may build and the connect() calls it may
\* make.
MaxSessions == 2
MaxConnects == 2
Sessions == 1..MaxSessions
Attempts == 1..MaxConnects

\* The retry loop of a join is followed for MaxExtraPolls attempts past
\* RETRY_LIMIT.
MaxExtraPolls == 3

\* The reconfigure calls that may be suspended at one time.
MaxResuming == 2
MaxPolls == RETRY_LIMIT + MaxExtraPolls

\* ------------------------------------------------------------- variables

VARIABLES
    \* PiComService.state and the talk histories
    transmitting,       \* this.state.transmitting
    micLatch,           \* this.state.micLatch
    txTimes,            \* this._txTimes: key-down times, newest first
    stopTxTimes,        \* this._stopTxTimes: key-up times, newest first
    \* collaborators of the talk controller
    mic,                \* this.mic: "undefined", "created", "paused", "active"
    talkLed,            \* the hardware talk indicator
    \* environment
    now,                \* the wall clock, what new Date() reads
    key,                \* the position of the physical talk button
    \* observation
    last,               \* the operation the last step performed
    thrown,             \* the error the last operation raised
    keyDowns,           \* the times of the last two real key-downs
    keyHolds,           \* the durations of the last two completed holds
    downsSinceLatch,    \* real key-downs since construction or the last latch
    \* MumbleClientWrapper objects, by session id
    constructed,        \* the session objects built so far
    connected,          \* this._connected
    connectCalled,      \* this._connectCalled
    connection,         \* this.connection: a connect attempt's id, 0 for undefined
    config,             \* this.config, as given to the constructor
    conn,               \* the connect() calls and the connection each one opened
    \* the channel joiner
    join,               \* the promise and the retry loop of one join call
    \* PiComService
    mumble,             \* this.mumble: the id of the session object in use
    mumbleConfig,       \* this.mumbleConfig
    audioStatus,        \* this._audioStatus
    hwSetupDone,        \* this.hardware.status.setupDone
    eventsBound,        \* the button events are bound to _txEvent
    env,                \* process.env: the two audio debug overrides
    awaiting,           \* per connect() call, the service call awaiting it
    outcome,            \* per service call, how its promise stands
    joinError,          \* what the default-channel join of _connectMumble raised
    resuming,           \* the reconfigure calls suspended after their disconnect
    \* the health check
    healthReport,       \* the last _errorState the health check computed
    errorFlasher,       \* the hardware error indicator
    lastHealthCheck     \* when the health check interval last fired

talkState == <<transmitting, micLatch, txTimes, stopTxTimes, talkLed>>
talkVars == <<transmitting, micLatch, txTimes, stopTxTimes, mic, talkLed>>
keyVars == <<key, keyDowns, keyHolds, downsSinceLatch>>
sessVars == <<constructed, connected, connectCalled, connection, config, conn>>
svcVars == <<mumble, mumbleConfig, audioStatus, hwSetupDone, eventsBound, env,
             awaiting, outcome, joinError, resuming>>
healthVars == <<healthReport, errorFlasher, lastHealthCheck>>
vars == <<talkVars, now, keyVars, last, thrown, sessVars, join, svcVars, healthVars>>

\* ------------------------------------------------------------- errors

NoError == [kind |-> "none", code |-> 0]
TypeError == [kind |-> "TypeError", code |-> 0]
ErrorWithStatusCode(code) == [kind |-> "ErrorWithStatusCode", code |-> code]

\* What the last step did: the operation and the object it acted on.
Op(name, arg) == [op |-> name, arg |-> arg]

\* ------------------------------------------------------------- helpers

\* arr.unshift(x); arr = arr.slice(0, 2)
Unshift2(x, arr) == SubSeq(<<x>> \o arr, 1, IF Len(arr) >= 1 THEN 2 ELSE 1)

\* mic.resume() and mic.pause() of the mic collaborator act on a started
\* capture only; on a mic that was created and never started they do nothing.
MicResume(m) == IF m \in {"paused", "active"} THEN "active" ELSE m
MicPause(m) == IF m \in {"paused", "active"} THEN "paused" ELSE m

\* ------------------------------------------------------- talk controller

\* A latch decision that ignores the gap between the two key-downs.
LatchConditionNoGap(tx, stop) ==
    /\ Len(tx) = 2
    /\ Len(stop) >= 2
    /\ stop[2] - tx[2] <= LATCH_TIME_MS
    /\ stop[1] - tx[1] <= LATCH_TIME_MS

\* The condition of _latchLogic under which it sets micLatch.  A history
\* entry that is missing reads as undefined, the subtraction gives NaN and
\* the comparison is false.
LatchCondition(tx, stop) ==
    /\ Len(tx) = 2
    /\ Len(stop) >= 2
    /\ stop[2] - tx[2] <= LATCH_TIME_MS
    /\ stop[1] - tx[1] <= LATCH_TIME_MS
    /\ 2 * (tx[1] - tx[2]) <= 3 * LATCH_TIME_MS

\* A _txEvent whose key-up branch leaves state.transmitting as it is.
TxEventKeepsTransmitting(state) ==
    IF state = DOWN
    THEN /\ mic' = MicResume(mic)
         /\ txTimes' = Unshift2(now, txTimes)
         /\ transmitting' = TRUE
         /\ talkLed' = TRUE
         /\ thrown' = NoError
         /\ UNCHANGED <<micLatch, stopTxTimes>>
    ELSE LET stop == Unshift2(now, stopTxTimes)
             latch == LatchCondition(txTimes, stop)
         IN  /\ stopTxTimes' = stop
             /\ micLatch' = latch
             /\ txTimes' = IF latch THEN <<>> ELSE txTimes
             /\ mic' = IF latch THEN mic ELSE MicPause(mic)
             /\ talkLed' = IF latch THEN talkLed ELSE FALSE
             /\ thrown' = NoError
             /\ UNCHANGED transmitting

\* _txEvent(state).  A call on an undefined this.mic raises a TypeError at
\* that statement: the statements before it have acted, the ones after not.
TxEvent(state) ==
    IF state = DOWN
    THEN IF mic = "undefined"
         THEN /\ thrown' = TypeError
              /\ UNCHANGED talkVars
         ELSE /\ mic' = MicResume(mic)
              /\ txTimes' = Unshift2(now, txTimes)
              /\ transmitting' = TRUE
              /\ talkLed' = TRUE
              /\ thrown' = NoError
              /\ UNCHANGED <<micLatch, stopTxTimes>>
    ELSE LET stop == Unshift2(now, stopTxTimes)
             latch == LatchCondition(txTimes, stop)
         IN  /\ stopTxTimes' = stop
             /\ micLatch' = latch
             /\ txTimes' = IF latch THEN <<>> ELSE txTimes
             /\ IF latch
                THEN /\ thrown' = NoError
                     /\ UNCHANGED <<mic, transmitting, talkLed>>
                ELSE IF mic = "undefined"
                     THEN /\ thrown' = TypeError
                          /\ UNCHANGED <<mic, transmitting, talkLed>>
                     ELSE /\ mic' = MicPause(mic)
                          /\ transmitting' = FALSE
                          /\ talkLed' = FALSE
                          /\ thrown' = NoError

\* An unLatchMic that clears the latch flag without the simulated key-up.
UnLatchMicFlagOnly ==
    IF micLatch
    THEN /\ micLatch' = FALSE
         /\ thrown' = NoError
         /\ UNCHANGED <<transmitting, txTimes, stopTxTimes, mic, talkLed>>
    ELSE /\ thrown' = ErrorWithStatusCode(400)
         /\ UNCHANGED talkVars

\* An unLatchMic that simulates the key-up whether latched or not.
UnLatchMicUnguarded == TxEvent(UP)

\* unLatchMic()
UnLatchMicCall ==
    IF micLatch
    THEN TxEvent(UP)
    ELSE /\ thrown' = ErrorWithStatusCode(400)
         /\ UNCHANGED talkVars

\* ------------------------------------------------- MumbleClientWrapper

\* The configurations a session may be built from: server and credentials
\* stand as one name, defaultChannelName is the optional default channel.
Configs ==
    {[server |-> "A", defaultChannelName |-> "Landing"],
     [server |-> "B", defaultChannelName |-> ""]}
NoConfig == [server |-> "", defaultChannelName |-> ""]

\* A connect() call that has not been made yet.
NoAttempt ==
    [owner |-> 0, phase |-> "unused", promise |-> "none", error |-> NoError,
     connErrCb |-> FALSE, ready |-> FALSE, channel |-> "Root",
     errBeforeReady |-> FALSE, lateCb |-> FALSE, emitted |-> 0]

\* The session objects as one value, and its assignment to the next state.
Sess ==
    [constructed |-> constructed, connected |-> connected,
     connectCalled |-> connectCalled, connection |-> connection,
     config |-> config, conn |-> conn]

SetSess(S) ==
    /\ constructed' = S.constructed
    /\ connected' = S.connected
    /\ connectCalled' = S.connectCalled
    /\ connection' = S.connection
    /\ config' = S.config
    /\ conn' = S.conn

\* The session variables hold S.
SessIs(S) ==
    /\ constructed = S.constructed
    /\ connected = S.connected
    /\ connectCalled = S.connectCalled
    /\ connection = S.connection
    /\ config = S.config
    /\ conn = S.conn

NoSessions ==
    [constructed |-> {},
     connected |-> [s \in Sessions |-> FALSE],
     connectCalled |-> [s \in Sessions |-> FALSE],
     connection |-> [s \in Sessions |-> 0],
     config |-> [s \in Sessions |-> NoConfig],
     conn |-> [a \in Attempts |-> NoAttempt]]

\* Session objects and connect() calls are numbered in the order they are
\* made.
NextSession(S) == Cardinality(S.constructed) + 1
NextAttempt(S) == Cardinality({a \in Attempts : S.conn[a].phase # "unused"}) + 1

\* reject(e) and resolve() of the promise connect() returned: a settled
\* promise stays as it is.
Reject(c, e) ==
    IF c.promise = "pending" THEN [c EXCEPT !.promise = "rejected", !.error = e] ELSE c
Resolve(c) ==
    IF c.promise = "pending" THEN [c EXCEPT !.promise = "resolved"] ELSE c

\* new MumbleClientWrapper(cfg)
NewWrapper(S, s, cfg) ==
    [S EXCEPT !.constructed = @ \cup {s},
              !.connected[s] = FALSE,
              !.connectCalled[s] = FALSE,
              !.connection[s] = 0,
              !.config[s] = cfg]

\* connect(): the flag, the promise and the call of mumble.connect.
ConnectCall(S, s, a) ==
    [S EXCEPT !.connectCalled[s] = TRUE,
              !.conn[a] = [NoAttempt EXCEPT !.owner = s,
                                            !.phase = "dialing",
                                            !.promise = "pending"]]

\* The callback of mumble.connect with an error.
ConnectCallbackError(S, a) ==
    [S EXCEPT !.conn[a] = Reject([@ EXCEPT !.phase = "failed"], ErrorWithStatusCode(500))]

\* A connect callback that marks the session connected before readiness.
ConnectCallbackMarksConnected(S, a) ==
    [S EXCEPT !.connection[S.conn[a].owner] = a,
              !.connected[S.conn[a].owner] = TRUE,
              !.conn[a] = [@ EXCEPT !.phase = "open", !.connErrCb = TRUE]]

\* The callback of mumble.connect with a connection: this.connection is
\* set, the user authenticated, connErrCb and the 'initialized' handler
\* registered.
ConnectCallbackConnection(S, a) ==
    [S EXCEPT !.connection[S.conn[a].owner] = a,
              !.conn[a] = [@ EXCEPT !.phase = "open", !.connErrCb = TRUE]]

\* An 'initialized' handler that leaves connErrCb registered.
OnInitializedKeepsErrCb(S, a) ==
    [S EXCEPT !.conn[a] = Resolve([@ EXCEPT !.ready = TRUE]),
              !.connected[S.conn[a].owner] = TRUE]

\* The 'initialized' handler: connErrCb is removed, the long-lived handlers
\* are bound, _connected is set and the promise resolved.
OnInitialized(S, a) ==
    [S EXCEPT !.conn[a] = Resolve([@ EXCEPT !.connErrCb = FALSE, !.ready = TRUE]),
              !.connected[S.conn[a].owner] = TRUE]

\* An 'error' handler that also drops the connected flag.
OnConnectionErrorDropsConnected(S, a) ==
    LET c == S.conn[a]
        afterCb == IF c.connErrCb
                   THEN Reject([c EXCEPT !.lateCb = @ \/ c.ready], ErrorWithStatusCode(500))
                   ELSE c
    IN  [S EXCEPT !.connected[c.owner] = FALSE,
                  !.conn[a] =
            [afterCb EXCEPT !.errBeforeReady = @ \/ ~c.ready,
                            !.emitted = IF c.ready /\ @ < 2 THEN @ + 1 ELSE @]]

\* An 'error' event of the connection: connErrCb, while registered, rejects
\* the promise; the _onError listener, once bound, emits the wrapper's
\* 'error' event.
OnConnectionError(S, a) ==
    LET c == S.conn[a]
        afterCb == IF c.connErrCb
                   THEN Reject([c EXCEPT !.lateCb = @ \/ c.ready], ErrorWithStatusCode(500))
                   ELSE c
    IN  [S EXCEPT !.conn[a] =
            [afterCb EXCEPT !.errBeforeReady = @ \/ ~c.ready,
                            !.emitted = IF c.ready /\ @ < 2 THEN @ + 1 ELSE @]]

\* disconnect(): the flag first, then the teardown of this.connection, which
\* raises a TypeError when this.connection is undefined.
DisconnectThrows(S, s) == S.connection[s] = 0

DisconnectCall(S, s) ==
    IF DisconnectThrows(S, s)
    THEN [S EXCEPT !.connected[s] = FALSE]
    ELSE [S EXCEPT !.connected[s] = FALSE,
                   !.conn[S.connection[s]] = [@ EXCEPT !.phase = "closed"]]

\* sendMessageToCurrentChannel(message): this.connection.user.channel is
\* read, which raises a TypeError when this.connection is undefined or its
\* user is not known yet (before 'initialized'); no flag is tested.
SendMessageThrows(S, s) ==
    \/ S.connection[s] = 0
    \/ ~S.conn[S.connection[s]].ready

\* The error of the library's channel.sendMessage on a closed connection,
\* where the library raises one.
ConnectionClosed == [kind |-> "ConnectionClosed", code |-> 0]

\* What the call raises: on a closed connection the library's
\* channel.sendMessage either returns or raises.
SendMessageOutcomes(S, s) ==
    IF SendMessageThrows(S, s)
    THEN {TypeError}
    ELSE IF S.conn[S.connection[s]].phase = "closed"
         THEN {NoError, ConnectionClosed}
         ELSE {NoError}

\* The status getter.
MumbleStatus(S, s) ==
    [connected |-> S.connected[s],
     connectionAttempted |-> S.connectCalled[s],
     currentChannel |-> IF S.connected[s] THEN S.conn[S.connection[s]].channel ELSE "null"]

\* ------------------------------------------------------ channel joiner

\* The names a join may ask for, and the channels the server has.
ChannelNames == {"Root", "Landing", "Missing"}
ServerChannels == {"Root", "Landing"}

\* connection.channelByName(name): the channel of that name, or undefined.
ChannelByName(name) == IF name \in ServerChannels THEN name ELSE "undefined"

MaxRetryExceeded == [kind |-> "Max retry exceeded", code |-> 0]

\* No join has been called.
NoJoin ==
    [session |-> 0, status |-> "idle", error |-> NoError, channel |-> "undefined",
     joinIssued |-> FALSE, retryCount |-> 0, timer |-> FALSE, rejectedAt |-> 0]

RejectJoin(j, e) ==
    IF j.status = "pending"
    THEN [j EXCEPT !.status = "rejected", !.error = e, !.rejectedAt = j.retryCount]
    ELSE j
ResolveJoin(j) ==
    IF j.status = "pending" THEN [j EXCEPT !.status = "resolved"] ELSE j

\* whileLoop(): one poll attempt.  After the rejection the loop is
\* scheduled again all the same.
WhileLoop(j) ==
    LET counted == [j EXCEPT !.retryCount = @ + 1]
    IN  IF counted.channel # conn[connection[j.session]].channel
        THEN [(IF counted.retryCount > RETRY_LIMIT
               THEN RejectJoin(counted, MaxRetryExceeded)
               ELSE counted) EXCEPT !.timer = TRUE]
        ELSE [ResolveJoin(counted) EXCEPT !.timer = FALSE]

\* A joiner that starts polling for a channel the lookup did not find.
ChannelJoinerPollsTheMissing(s, name) ==
    LET started == [NoJoin EXCEPT !.session = s, !.status = "pending"]
        channel == ChannelByName(name)
    IN  IF connection[s] = 0
        THEN RejectJoin(started, TypeError)
        ELSE IF channel = "undefined"
             THEN WhileLoop(RejectJoin([started EXCEPT !.channel = channel],
                                       ErrorWithStatusCode(404)))
             ELSE WhileLoop([started EXCEPT !.channel = channel, !.joinIssued = TRUE])

\* _channelJoinerWithChannelFetchFunc(() => this.connection.channelByName(name), name),
\* up to the return of its first whileLoop().  The lookup on an undefined
\* this.connection raises a TypeError, which the catch turns into the
\* rejection.
ChannelJoiner(s, name) ==
    LET started == [NoJoin EXCEPT !.session = s, !.status = "pending"]
        channel == ChannelByName(name)
    IN  IF connection[s] = 0
        THEN RejectJoin(started, TypeError)
        ELSE IF channel = "undefined"
             THEN RejectJoin([started EXCEPT !.channel = channel],
                             ErrorWithStatusCode(404))
             ELSE WhileLoop([started EXCEPT !.channel = channel, !.joinIssued = TRUE])

\* --------------------------------------------------------- PiComService

NoReport == [status |-> "none", messages |-> <<>>]

\* An _errorState that reports any disconnected session as an error.
ErrorStateIgnoresAttempted(audio, setupDone, status) ==
    LET audioMsgs ==
            (IF audio = AUDIO_NOT_SETUP
             THEN <<[message |-> "WARNING - Audio Not Setup", status |-> STATUS_WARN]>>
             ELSE <<>>)
            \o (IF audio = AUDIO_SETUP_ERROR
                THEN <<[message |-> "ERROR - Audio Error", status |-> STATUS_ERROR]>>
                ELSE <<>>)
        hwMsgs ==
            IF ~setupDone
            THEN <<[message |-> "WARNING - Hardware Not Setup", status |-> STATUS_WARN]>>
            ELSE <<>>
        mumbleMsgs ==
            IF ~status.connected
            THEN <<[message |-> "ERROR - Mumble Not Connected", status |-> STATUS_ERROR]>>
            ELSE <<>>
        messages == audioMsgs \o hwMsgs \o mumbleMsgs
        errorLevel == \E i \in DOMAIN messages : messages[i].status = STATUS_ERROR
        warnLevel == \E i \in DOMAIN messages : messages[i].status = STATUS_WARN
    IN  [status |-> IF errorLevel THEN STATUS_ERROR
                    ELSE IF warnLevel THEN STATUS_WARN ELSE STATUS_NORMAL,
         messages |-> messages]

\* get _errorState(): the messages pushed in the order of the code's tests,
\* then the overall level.
ErrorState(audio, setupDone, status) ==
    LET audioMsgs ==
            (IF audio = AUDIO_NOT_SETUP
             THEN <<[message |-> "WARNING - Audio Not Setup", status |-> STATUS_WARN]>>
             ELSE <<>>)
            \o (IF audio = AUDIO_SETUP_ERROR
                THEN <<[message |-> "ERROR - Audio Error", status |-> STATUS_ERROR]>>
                ELSE <<>>)
        hwMsgs ==
            IF ~setupDone
            THEN <<[message |-> "WARNING - Hardware Not Setup", status |-> STATUS_WARN]>>
            ELSE <<>>
        mumbleMsgs ==
            IF ~status.connected
            THEN IF status.connectionAttempted
                 THEN <<[message |-> "ERROR - Mumble Not Connected", status |-> STATUS_ERROR]>>
                 ELSE <<[message |-> "WARNING - Mumble Connection Not Attempted",
                         status |-> STATUS_WARN]>>
            ELSE <<>>
        messages == audioMsgs \o hwMsgs \o mumbleMsgs
        errorLevel == \E i \in DOMAIN messages : messages[i].status = STATUS_ERROR
        warnLevel == \E i \in DOMAIN messages : messages[i].status = STATUS_WARN
    IN  [status |-> IF errorLevel THEN STATUS_ERROR
                    ELSE IF warnLevel THEN STATUS_WARN ELSE STATUS_NORMAL,
         messages |-> messages]

\* _setupMic() on this.mic = m.  micOk: Mic() builds the capture;
\* hasConnection: this.mumble.connection is defined.  A failure is rethrown
\* unless DEBUG_IGNORE_AUDIO_ERRORS is set.
SetupMic(m, micOk, hasConnection) ==
    IF ~micOk
    THEN [mic |-> m, threw |-> ~env.ignoreAudioErrors]
    ELSE IF ~hasConnection
         THEN [mic |-> "created", threw |-> ~env.ignoreAudioErrors]
         ELSE [mic |-> "paused", threw |-> FALSE]

\* _setupAudio() on this.mic = m and this._audioStatus = status.
\* speakerOk: new Speaker() builds the sink.
SetupAudio(m, status, micOk, speakerOk, hasConnection) ==
    IF env.disableAudio
    THEN [mic |-> m, audioStatus |-> status, threw |-> FALSE]
    ELSE LET micSetup == SetupMic(m, micOk, hasConnection)
         IN  IF micSetup.threw \/ ((~speakerOk \/ ~hasConnection) /\ ~env.ignoreAudioErrors)
             THEN [mic |-> micSetup.mic, audioStatus |-> AUDIO_SETUP_ERROR, threw |-> TRUE]
             ELSE IF ~speakerOk \/ ~hasConnection
                  THEN [mic |-> micSetup.mic, audioStatus |-> status, threw |-> FALSE]
                  ELSE [mic |-> micSetup.mic, audioStatus |-> AUDIO_CONFIGURED,
                        threw |-> FALSE]

\* this.mumble.joinChannel(defaultChannelName) in _connectMumble:
\* MumbleClientWrapper has joinChannelByName and joinChannelById and no
\* joinChannel, so the call raises a TypeError, which the catch logs.
JoinDefaultChannel ==
    IF mumbleConfig.defaultChannelName # "" THEN TypeError ELSE NoError

\* _connectMumble() from the point where the awaited connect() call a has
\* settled, and the rest of the service call (setup or reconfigure) that
\* awaits it.  The session variables are read as the settling event left
\* them.
ConnectMumbleSettled(a) ==
    \E micOk, speakerOk \in BOOLEAN :
        LET call == awaiting[a]
            audio == SetupAudio(mic, audioStatus, micOk, speakerOk,
                                connection'[mumble] # 0)
        IN  /\ mic' = audio.mic
            /\ audioStatus' = audio.audioStatus
            /\ awaiting' = [awaiting EXCEPT ![a] = "none"]
            /\ IF audio.threw
               THEN /\ outcome' = [outcome EXCEPT ![call] = "rejected"]
                    /\ UNCHANGED <<eventsBound, joinError>>
               ELSE /\ joinError' = JoinDefaultChannel
                    /\ eventsBound' = (eventsBound \/ call = "setup")
                    /\ outcome' = [outcome EXCEPT ![call] = "resolved"]
            /\ UNCHANGED <<mumble, mumbleConfig, hwSetupDone, env, resuming>>

\* The continuation of an await runs as soon as the event that settled the
\* promise returns, before any other event is handled.
AfterSettle(a) ==
    IF awaiting[a] # "none" /\ conn[a].promise = "pending" /\ conn'[a].promise # "pending"
    THEN ConnectMumbleSettled(a)
    ELSE UNCHANGED <<mic, svcVars>>

\* ------------------------------------------------------------- actions

\* A suspended reconfigure call resumes before the event loop handles its
\* next event or timer; until then only further calls of the running caller
\* come in.
NoneResuming == resuming = <<>>

\* The hardware's txButton-down edge, handled by _txEvent(DOWN) once bound.
KeyDown ==
    /\ NoneResuming
    /\ key = UP
    /\ key' = DOWN
    /\ IF eventsBound
       THEN TxEvent(DOWN)
       ELSE thrown' = NoError /\ UNCHANGED talkVars
    /\ last' = Op("keyDown", 0)
    /\ keyDowns' = Unshift2(now, keyDowns)
    /\ downsSinceLatch' = IF downsSinceLatch < 2 THEN downsSinceLatch + 1 ELSE 2
    /\ UNCHANGED <<now, keyHolds, sessVars, join, svcVars, healthVars>>

\* The hardware's txButton-up edge, handled by _txEvent(UP) once bound.
KeyUp ==
    /\ NoneResuming
    /\ key = DOWN
    /\ key' = UP
    /\ IF eventsBound
       THEN TxEvent(UP)
       ELSE thrown' = NoError /\ UNCHANGED talkVars
    /\ last' = Op("keyUp", 0)
    /\ keyHolds' = Unshift2(now - keyDowns[1], keyHolds)
    /\ downsSinceLatch' = IF micLatch' THEN 0 ELSE downsSinceLatch
    /\ UNCHANGED <<now, keyDowns, sessVars, join, svcVars, healthVars>>

\* A 'txButton-down' event that the hardware reports whatever it reported
\* before: _txEvent(DOWN).
TxButtonDown ==
    /\ NoneResuming
    /\ eventsBound
    /\ TxEvent(DOWN)
    /\ key' = DOWN
    /\ last' = Op("txButton-down", 0)
    /\ UNCHANGED <<now, keyDowns, keyHolds, downsSinceLatch, sessVars, join,
                   svcVars, healthVars>>

\* A 'txButton-up' event that the hardware reports whatever it reported
\* before: _txEvent(UP).
TxButtonUp ==
    /\ NoneResuming
    /\ eventsBound
    /\ TxEvent(UP)
    /\ key' = UP
    /\ last' = Op("txButton-up", 0)
    /\ UNCHANGED <<now, keyDowns, keyHolds, downsSinceLatch, sessVars, join,
                   svcVars, healthVars>>

\* The operator's unlatch command.
UnLatchMic ==
    /\ UnLatchMicCall
    /\ last' = Op("unLatchMic", 0)
    /\ downsSinceLatch' = IF micLatch' THEN 0 ELSE downsSinceLatch
    /\ UNCHANGED <<now, key, keyDowns, keyHolds, sessVars, join, svcVars, healthVars>>

\* Time passes.
Tick ==
    /\ now < MaxTime
    /\ now' = now + TickMs
    /\ last' = Op("tick", 0)
    /\ UNCHANGED <<talkVars, keyVars, thrown, sessVars, join, svcVars, healthVars>>

\* new MumbleClientWrapper(cfg)
Construct(cfg) ==
    /\ NextSession(Sess) \in Sessions
    /\ SetSess(NewWrapper(Sess, NextSession(Sess), cfg))
    /\ last' = Op("construct", NextSession(Sess))
    /\ thrown' = NoError
    /\ UNCHANGED <<talkVars, now, keyVars, join, svcVars, healthVars>>

\* connect() called on a session directly.
Connect(s) ==
    /\ s \in constructed
    /\ NextAttempt(Sess) \in Attempts
    /\ SetSess(ConnectCall(Sess, s, NextAttempt(Sess)))
    /\ last' = Op("connect", s)
    /\ thrown' = NoError
    /\ UNCHANGED <<talkVars, now, keyVars, join, svcVars, healthVars>>

\* disconnect() called on a session directly.
Disconnect(s) ==
    /\ s \in constructed
    /\ SetSess(DisconnectCall(Sess, s))
    /\ thrown' = IF DisconnectThrows(Sess, s) THEN TypeError ELSE NoError
    /\ last' = Op("disconnect", s)
    /\ UNCHANGED <<talkVars, now, keyVars, join, svcVars, healthVars>>

\* sendMessageToCurrentChannel(message) called on a session.
SendMessageToCurrentChannel(s) ==
    /\ s \in constructed
    /\ thrown' \in SendMessageOutcomes(Sess, s)
    /\ last' = Op("sendMessageToCurrentChannel", s)
    /\ UNCHANGED <<talkVars, now, keyVars, sessVars, join, svcVars, healthVars>>

\* mumble.connect calls back with an error.
TransportFailed(a) ==
    /\ NoneResuming
    /\ conn[a].phase = "dialing"
    /\ SetSess(ConnectCallbackError(Sess, a))
    /\ AfterSettle(a)
    /\ last' = Op("transportFailed", a)
    /\ thrown' = NoError
    /\ UNCHANGED <<talkState, now, keyVars, join, healthVars>>

\* mumble.connect calls back with a connection.
TransportConnected(a) ==
    /\ NoneResuming
    /\ conn[a].phase = "dialing"
    /\ SetSess(ConnectCallbackConnection(Sess, a))
    /\ AfterSettle(a)
    /\ last' = Op("transportConnected", a)
    /\ thrown' = NoError
    /\ UNCHANGED <<talkState, now, keyVars, join, healthVars>>

\* The connection emits 'initialized'; the library does so once.
InitializedEvent(a) ==
    /\ NoneResuming
    /\ conn[a].phase = "open"
    /\ ~conn[a].ready
    /\ SetSess(OnInitialized(Sess, a))
    /\ AfterSettle(a)
    /\ last' = Op("initialized", a)
    /\ thrown' = NoError
    /\ UNCHANGED <<talkState, now, keyVars, join, healthVars>>

\* The connection emits 'error'.
ErrorEvent(a) ==
    /\ NoneResuming
    /\ conn[a].phase = "open"
    /\ SetSess(OnConnectionError(Sess, a))
    /\ AfterSettle(a)
    /\ last' = Op("error", a)
    /\ thrown' = NoError
    /\ UNCHANGED <<talkState, now, keyVars, join, healthVars>>

\* joinChannelByName(name)
JoinChannelByName(s, name) ==
    /\ s \in constructed
    /\ join.status = "idle"
    /\ join' = ChannelJoiner(s, name)
    /\ last' = Op("joinChannelByName", s)
    /\ thrown' = NoError
    /\ UNCHANGED <<talkVars, now, keyVars, sessVars, svcVars, healthVars>>

\* The timer set by setTimeout(whileLoop, 0) fires.
PollTimer ==
    /\ NoneResuming
    /\ join.timer
    /\ join.retryCount < MaxPolls
    /\ join' = WhileLoop(join)
    /\ last' = Op("whileLoop", join.session)
    /\ thrown' = NoError
    /\ UNCHANGED <<talkVars, now, keyVars, sessVars, svcVars, healthVars>>

\* The server acts on the channel.join() request: the user is moved.
ServerConfirmsJoin ==
    /\ NoneResuming
    /\ join.joinIssued
    /\ conn[connection[join.session]].channel # join.channel
    /\ conn' = [conn EXCEPT ![connection[join.session]] = [@ EXCEPT !.channel = join.channel]]
    /\ last' = Op("userMoved", join.session)
    /\ thrown' = NoError
    /\ UNCHANGED <<talkVars, now, keyVars, constructed, connected, connectCalled,
                   connection, config, join, svcVars, healthVars>>

\* setup(): hardware.setup(), then _connectMumble() up to its await of
\* connect().
SetupCall ==
    /\ outcome["setup"] = "none"
    /\ NextAttempt(Sess) \in Attempts
    /\ hwSetupDone' = TRUE
    /\ SetSess(ConnectCall(Sess, mumble, NextAttempt(Sess)))
    /\ awaiting' = [awaiting EXCEPT ![NextAttempt(Sess)] = "setup"]
    /\ outcome' = [outcome EXCEPT !["setup"] = "pending"]
    /\ last' = Op("setup", mumble)
    /\ thrown' = NoError
    /\ UNCHANGED <<talkVars, now, keyVars, join, healthVars,
                   mumble, mumbleConfig, audioStatus, eventsBound, env, joinError,
                   resuming>>

\* reconfigureMumbleAndReconnect(newConfig), its synchronous part: the
\* config, then _disconnectMumble() on the session in use.  When
\* disconnect() raises its TypeError the call is rejected; otherwise the
\* call is suspended at its await, behind the calls suspended before it.
ReconfigureCall(newConfig) ==
    /\ \/ DisconnectThrows(Sess, mumble)
       \/ /\ Len(resuming) < MaxResuming
          /\ NextSession(Sess) \in Sessions
          /\ NextAttempt(Sess) \in Attempts
    /\ mumbleConfig' = newConfig
    /\ audioStatus' = AUDIO_NOT_SETUP
    /\ SetSess(DisconnectCall(Sess, mumble))
    /\ last' = Op("reconfigure", mumble)
    /\ IF DisconnectThrows(Sess, mumble)
       THEN /\ thrown' = TypeError
            /\ outcome' = [outcome EXCEPT !["reconfigure"] = "rejected"]
            /\ UNCHANGED resuming
       ELSE /\ thrown' = NoError
            /\ outcome' = [outcome EXCEPT !["reconfigure"] = "pending"]
            /\ resuming' = Append(resuming, [config |-> newConfig, old |-> mumble])
    /\ UNCHANGED <<talkVars, now, keyVars, join, healthVars,
                   mumble, hwSetupDone, eventsBound, env, joinError, awaiting>>

\* reconfigureMumbleAndReconnect resumed after its await: the new session
\* object is built from the call's newConfig and replaces this.mumble, then
\* _connectMumble() runs up to its await of connect().
ReconfigureResume ==
    LET s == NextSession(Sess)
        a == NextAttempt(Sess)
    IN  /\ resuming # <<>>
        /\ s \in Sessions
        /\ a \in Attempts
        /\ SetSess(ConnectCall(NewWrapper(Sess, s, Head(resuming).config), s, a))
        /\ mumble' = s
        /\ awaiting' = [awaiting EXCEPT ![a] = "reconfigure"]
        /\ resuming' = Tail(resuming)
        /\ last' = Op("reconfigureResume", s)
        /\ thrown' = NoError
        /\ UNCHANGED <<talkVars, now, keyVars, join, healthVars,
                       mumbleConfig, audioStatus, hwSetupDone, eventsBound, env,
                       joinError, outcome>>

\* _healthCheckCallback(), run by the interval set in the constructor.
HealthCheckCallback ==
    /\ NoneResuming
    /\ now >= lastHealthCheck + HEALTH_CHECK_MS
    /\ LET global == ErrorState(audioStatus, hwSetupDone, MumbleStatus(Sess, mumble))
       IN  /\ healthReport' = global
           /\ errorFlasher' = (global.status = STATUS_ERROR)
    /\ lastHealthCheck' = now
    /\ last' = Op("healthCheck", 0)
    /\ thrown' = NoError
    /\ UNCHANGED <<talkVars, now, keyVars, sessVars, join, svcVars>>

\* --------------------------------------------------------- specifications

\* What the PiComService constructor sets, but for the session, the mic and
\* the environment.
ServiceConstructed ==
    /\ transmitting = FALSE
    /\ micLatch = FALSE
    /\ txTimes = <<>>
    /\ stopTxTimes = <<>>
    /\ talkLed = FALSE
    /\ now = 0
    /\ key = UP
    /\ last = Op("init", 0)
    /\ thrown = NoError
    /\ keyDowns = <<>>
    /\ keyHolds = <<>>
    /\ downsSinceLatch = 0
    /\ join = NoJoin
    /\ mumble = 1
    /\ awaiting = [a \in Attempts |-> "none"]
    /\ outcome = [call \in {"setup", "reconfigure"} |-> "none"]
    /\ joinError = NoError
    /\ resuming = <<>>
    /\ healthReport = NoReport
    /\ errorFlasher = FALSE
    /\ lastHealthCheck = 0

Production == [disableAudio |-> FALSE, ignoreAudioErrors |-> FALSE]
DefaultConfig == [server |-> "A", defaultChannelName |-> "Landing"]

\* A session that completed its handshake, and one never connected.
ReadySession ==
    [NewWrapper(NoSessions, 1, DefaultConfig) EXCEPT
        !.connected[1] = TRUE,
        !.connectCalled[1] = TRUE,
        !.connection[1] = 1,
        !.conn[1] = [NoAttempt EXCEPT !.owner = 1, !.phase = "open",
                                      !.promise = "resolved", !.ready = TRUE]]
FreshSession == NewWrapper(NoSessions, 1, DefaultConfig)

\* The state setup() leaves when the connect succeeds and the audio is
\* configured: the mic started and paused, the button events bound.
SetUp ==
    /\ ServiceConstructed
    /\ SessIs(ReadySession)
    /\ mumbleConfig = DefaultConfig
    /\ env = Production
    /\ mic = "paused"
    /\ audioStatus = AUDIO_CONFIGURED
    /\ hwSetupDone = TRUE
    /\ eventsBound = TRUE

\* The talk controller after setup: alternating talk-button edges only.
NextEdges == KeyDown \/ KeyUp \/ Tick
SpecEdges == SetUp /\ [][NextEdges]_vars

\* The talk controller after setup: alternating talk-button edges and the
\* unlatch command.
NextTalk == KeyDown \/ KeyUp \/ UnLatchMic \/ Tick
SpecTalk == SetUp /\ [][NextTalk]_vars

\* The talk controller after setup, under button events in any order
\* (repeated downs, repeated ups) and the unlatch command.
NextAnyEdges == TxButtonDown \/ TxButtonUp \/ UnLatchMic \/ Tick
SpecAnyEdges == SetUp /\ [][NextAnyEdges]_vars

\* Session objects on their own: construction, connect(), the library's
\* callbacks and events, disconnect().
InitSession ==
    /\ ServiceConstructed
    /\ SessIs(NoSessions)
    /\ mumbleConfig = DefaultConfig
    /\ env = Production
    /\ mic = "undefined"
    /\ audioStatus = AUDIO_NOT_SETUP
    /\ hwSetupDone = FALSE
    /\ eventsBound = FALSE

NextSessionStep ==
    \/ \E cfg \in Configs : Construct(cfg)
    \/ \E s \in Sessions : Connect(s) \/ Disconnect(s) \/ SendMessageToCurrentChannel(s)
    \/ \E a \in Attempts :
          \/ TransportFailed(a)
          \/ TransportConnected(a)
          \/ InitializedEvent(a)
          \/ ErrorEvent(a)
SpecSession == InitSession /\ [][NextSessionStep]_vars

\* The channel joiner on one session, which either completed its handshake
\* or was never connected.
InitJoin ==
    /\ ServiceConstructed
    /\ \E S \in {ReadySession, FreshSession} : SessIs(S)
    /\ mumbleConfig = DefaultConfig
    /\ env = Production
    /\ mic = "undefined"
    /\ audioStatus = AUDIO_NOT_SETUP
    /\ hwSetupDone = FALSE
    /\ eventsBound = FALSE

NextJoin ==
    \/ \E name \in ChannelNames : JoinChannelByName(1, name)
    \/ PollTimer
    \/ ServerConfirmsJoin
SpecJoin == InitJoin /\ [][NextJoin]_vars

\* The health check over every combination of its inputs.
InitHealth ==
    /\ ServiceConstructed
    /\ \E c, called \in BOOLEAN :
          SessIs([(IF c THEN ReadySession ELSE FreshSession) EXCEPT
                     !.connectCalled[1] = called])
    /\ mumbleConfig = DefaultConfig
    /\ env = Production
    /\ mic = "undefined"
    /\ audioStatus \in {AUDIO_NOT_SETUP, AUDIO_SETUP_ERROR, AUDIO_CONFIGURED}
    /\ hwSetupDone \in BOOLEAN
    /\ eventsBound = FALSE

NextHealth == HealthCheckCallback \/ Tick
SpecHealth == InitHealth /\ [][NextHealth]_vars

\* The service from its construction: setup(), reconfiguration, the
\* library's callbacks and events, the talk button and the unlatch command.
Init ==
    /\ ServiceConstructed
    /\ mumbleConfig \in Configs
    /\ SessIs(NewWrapper(NoSessions, 1, mumbleConfig))
    /\ env \in [disableAudio : BOOLEAN, ignoreAudioErrors : BOOLEAN]
    /\ mic = "undefined"
    /\ audioStatus = AUDIO_NOT_SETUP
    /\ hwSetupDone = FALSE
    /\ eventsBound = FALSE

Next ==
    \/ SetupCall
    \/ \E cfg \in Configs : ReconfigureCall(cfg)
    \/ ReconfigureResume
    \/ \E a \in Attempts :
          \/ TransportFailed(a)
          \/ TransportConnected(a)
          \/ InitializedEvent(a)
          \/ ErrorEvent(a)
    \/ KeyDown
    \/ KeyUp
    \/ UnLatchMic
Spec == Init /\ [][Next]_vars

\* ============================================================ properties

\* ----------------------------------------------------------------- C1
\* C1: over alternating talk-button edges, transmitting is true while the
\* button is down, and while it is up transmitting is true exactly when the
\* last key-up latched the mic (so it stays true until a later key-up
\* clears the latch).
C1_TransmitBetweenDownAndUp ==
    /\ key = DOWN => transmitting
    /\ key = UP => (transmitting <=> micLatch)

\* A latching key-up has happened and time has passed since.
C1_LatchedAfterKeyUp ==
    /\ key = UP
    /\ last.op = "tick"
    /\ micLatch
    /\ transmitting

\* ----------------------------------------------------------------- C2
\* C2 as stated: after every key-up, micLatch is true exactly when the last
\* two hold durations are both <= 500 ms and the last two key-downs are at
\* most 750 ms apart.
C2_LatchIffLastTwoHolds ==
    last.op = "keyUp" =>
        (micLatch <=> /\ Len(keyHolds) = 2
                      /\ keyHolds[1] <= 500
                      /\ keyHolds[2] <= 500
                      /\ keyDowns[1] - keyDowns[2] <= 750)

\* C2 as amended: after every key-up, micLatch is true exactly when at least
\* two key-downs have happened since the service started or since the last
\* latch, the last two hold durations are both <= 500 ms and the last two
\* key-downs are at most 750 ms apart.
C2_LatchIffTwoTapsSinceLatch ==
    [][last'.op = "keyUp" =>
        (micLatch' <=> /\ downsSinceLatch >= 2
                       /\ keyHolds'[1] <= 500
                       /\ keyHolds'[2] <= 500
                       /\ keyDowns'[1] - keyDowns'[2] <= 750)]_vars

\* A key-up latched on two holds of exactly 500 ms, 750 ms apart.
C2_LatchedAtTheLimits ==
    /\ last.op = "keyUp"
    /\ micLatch
    /\ Len(keyHolds) = 2
    /\ keyHolds[1] = 500
    /\ keyHolds[2] = 500
    /\ keyDowns[1] - keyDowns[2] = 750

\* ----------------------------------------------------------------- C3
\* C3: with the audio set up (and no debug override), the mic is active
\* whenever transmitting is true, and paused whenever transmitting and
\* micLatch are both false.
C3_MicFollowsTransmitting ==
    (env = Production /\ audioStatus = AUDIO_CONFIGURED) =>
        /\ transmitting => mic = "active"
        /\ (~transmitting /\ ~micLatch) => mic = "paused"

\* ----------------------------------------------------------------- C4
\* C4: unLatchMic() called while latched ends with transmitting false,
\* micLatch false, the mic paused and the talk indicator off, without error.
C4_UnlatchStopsTransmission ==
    [][(last'.op = "unLatchMic" /\ micLatch) =>
        /\ ~transmitting'
        /\ ~micLatch'
        /\ mic' = "paused"
        /\ ~talkLed'
        /\ thrown' = NoError]_vars

\* unLatchMic() has run on a latched mic.
C4_Unlatched ==
    /\ last.op = "unLatchMic"
    /\ thrown = NoError
    /\ ~transmitting

\* ----------------------------------------------------------------- C5
\* C5: unLatchMic() called while not latched raises the error with code 400
\* and changes neither the talk state, the histories, the mic nor the
\* indicator.
C5_UnlatchRejectedWhenNotLatched ==
    [][(last'.op = "unLatchMic" /\ ~micLatch) =>
        /\ thrown' = ErrorWithStatusCode(400)
        /\ UNCHANGED <<transmitting, micLatch, txTimes, stopTxTimes, mic, talkLed>>]_vars

\* unLatchMic() was refused while the button was held down and transmitting.
C5_RefusedWhileTransmitting ==
    /\ last.op = "unLatchMic"
    /\ thrown = ErrorWithStatusCode(400)
    /\ transmitting
    /\ Len(txTimes) = 2

\* ----------------------------------------------------------------- C6
\* C6: a join of an existing channel that the current channel never matches
\* fails with the timeout error after exactly RETRY_LIMIT poll attempts: it
\* has failed once RETRY_LIMIT attempts are done, and the attempt at which
\* it failed is attempt number RETRY_LIMIT.
C6_TimeoutAfterExactlyRetryLimit ==
    /\ (join.status = "pending" /\ join.joinIssued) => join.retryCount < RETRY_LIMIT
    /\ join.error = MaxRetryExceeded => join.rejectedAt = RETRY_LIMIT

\* ----------------------------------------------------------------- C7
\* C7: a join whose lookup returns nothing is rejected with code 404, has
\* issued no channel.join(), has made no poll attempt and has no poll
\* scheduled.
C7_NotFoundWithoutJoinOrPoll ==
    (join.status # "idle" /\ connection[1] # 0 /\ join.channel = "undefined") =>
        /\ join.status = "rejected"
        /\ join.error = ErrorWithStatusCode(404)
        /\ ~join.joinIssued
        /\ join.retryCount = 0
        /\ ~join.timer

\* A join of a missing channel was called on a connected session.
C7_MissingChannelAsked ==
    /\ last.op = "joinChannelByName"
    /\ connected[1]
    /\ join.error = ErrorWithStatusCode(404)

\* ----------------------------------------------------------------- C8
\* C8: the health report lists exactly the messages of the rules that
\* apply, in the rule order, and its status is ERROR if a message is an
\* ERROR, else WARNING if one is a WARNING, else NORMAL with no message.
C8_Rules ==
    <<[applies |-> audioStatus = AUDIO_NOT_SETUP,
       message |-> "WARNING - Audio Not Setup", status |-> "WARNING"],
      [applies |-> audioStatus = AUDIO_SETUP_ERROR,
       message |-> "ERROR - Audio Error", status |-> "ERROR"],
      [applies |-> ~hwSetupDone,
       message |-> "WARNING - Hardware Not Setup", status |-> "WARNING"],
      [applies |-> ~connected[mumble] /\ connectCalled[mumble],
       message |-> "ERROR - Mumble Not Connected", status |-> "ERROR"],
      [applies |-> ~connected[mumble] /\ ~connectCalled[mumble],
       message |-> "WARNING - Mumble Connection Not Attempted", status |-> "WARNING"]>>

C8_Applying == {i \in 1..5 : C8_Rules[i].applies}

C8_HealthReportFollowsRules ==
    healthReport # NoReport =>
        /\ Len(healthReport.messages) = Cardinality(C8_Applying)
        /\ \A i \in C8_Applying :
              LET k == Cardinality({j \in C8_Applying : j <= i})
              IN  healthReport.messages[k] =
                      [message |-> C8_Rules[i].message, status |-> C8_Rules[i].status]
        /\ healthReport.status =
              IF \E i \in C8_Applying : C8_Rules[i].status = "ERROR" THEN "ERROR"
              ELSE IF C8_Applying # {} THEN "WARNING"
              ELSE "NORMAL"
        /\ errorFlasher = (healthReport.status = "ERROR")

\* The health check reported two warnings: audio not set up, connection
\* not attempted.
C8_TwoWarnings ==
    /\ healthReport.status = "WARNING"
    /\ Len(healthReport.messages) = 2
    /\ audioStatus = AUDIO_NOT_SETUP
    /\ hwSetupDone
    /\ ~connectCalled[mumble]

\* ----------------------------------------------------------------- C9
\* C9: a session is connected only if connect() was called on it and one of
\* its connections signalled 'initialized'; a session is built with both
\* flags false; and connected goes from true to false only by disconnect().
C9_ConnectedImpliesReady ==
    \A s \in constructed :
        connected[s] =>
            /\ connectCalled[s]
            /\ \E a \in Attempts : conn[a].owner = s /\ conn[a].ready

C9_FlagSteps ==
    \A s \in Sessions :
        /\ (s \in constructed' /\ s \notin constructed) =>
               (~connected'[s] /\ ~connectCalled'[s])
        /\ (s \in constructed /\ connected[s] /\ ~connected'[s]) =>
               last' = Op("disconnect", s)

C9_ConnectedOnlyAfterReady == []C9_ConnectedImpliesReady /\ [][C9_FlagSteps]_vars

\* A connected session has seen an error event and is still connected.
C9_ConnectedThroughError ==
    \E a \in Attempts :
        /\ last = Op("error", a)
        /\ conn[a].ready
        /\ connected[conn[a].owner]

\* ---------------------------------------------------------------- C10
\* C10: connect() is rejected with the connection error (code 500) when the
\* transport connect fails and when an error event arrives before
\* 'initialized'; once 'initialized' has arrived connErrCb is not
\* registered, no error event is delivered to it, and the promise, settled
\* once, never changes.
C10_RejectedInHandshake ==
    \A a \in Attempts :
        /\ (conn[a].phase = "failed" \/ conn[a].errBeforeReady) =>
               (conn[a].promise = "rejected" /\ conn[a].error = ErrorWithStatusCode(500))
        /\ conn[a].ready => ~conn[a].connErrCb
        /\ ~conn[a].lateCb

C10_SettledOnce ==
    \A a \in Attempts :
        (conn[a].ready \/ conn[a].promise \in {"resolved", "rejected"}) =>
            (conn'[a].promise = conn[a].promise /\ conn'[a].error = conn[a].error)

C10_ConnectRejectedOnceInHandshakeOnly ==
    []C10_RejectedInHandshake /\ [][C10_SettledOnce]_vars

\* An error event arrived after readiness and the connect stayed resolved.
C10_ErrorAfterReady ==
    \E a \in Attempts :
        /\ conn[a].ready
        /\ conn[a].emitted > 0
        /\ conn[a].promise = "resolved"

\* ---------------------------------------------------------------- C11
\* C11: a session object has at most one connect() call whose handshake is
\* in progress (dialing, or open and not yet ready) with its promise
\* pending.
C11_OneOutstandingConnect ==
    \A s \in Sessions :
        Cardinality({a \in Attempts : /\ conn[a].owner = s
                                      /\ conn[a].promise = "pending"
                                      /\ conn[a].phase \in {"dialing", "open"}}) <= 1

\* ---------------------------------------------------------------- C12
\* C12: an 'error' event of a connection that is ready makes the session
\* emit one 'error' event and leaves connected, connectionAttempted, the
\* connection reference and every other connect() call as they were.
C12_ErrorAfterReadyOnlyEmits ==
    [][\A a \in Attempts :
          (last' = Op("error", a) /\ conn[a].ready) =>
              /\ conn[a].emitted < 2 => conn'[a].emitted = conn[a].emitted + 1
              /\ conn'[a] = [conn[a] EXCEPT !.emitted = conn'[a].emitted]
              /\ \A b \in Attempts \ {a} : conn'[b] = conn[b]
              /\ UNCHANGED <<constructed, connected, connectCalled, connection, config>>]_vars

\* A first error arrived on the ready connection the session holds.
C12_FirstErrorOnReadyConnection ==
    \E a \in Attempts :
        /\ last = Op("error", a)
        /\ conn[a].ready
        /\ conn[a].emitted = 1
        /\ connection[conn[a].owner] = a
        /\ connected[conn[a].owner]

\* ---------------------------------------------------------------- C13
\* C13: sendMessageToCurrentChannel on a session that is not connected
\* raises an error; it never returns normally after handing the message to
\* a channel.
C13_SendFailsWhenNotConnected ==
    \A s \in Sessions :
        (last = Op("sendMessageToCurrentChannel", s) /\ ~connected[s]) =>
            thrown # NoError

\* ---------------------------------------------------------------- C14
\* C14: no session object is disconnected by two reconfigure calls, and at
\* no time is more than one session object connected or connecting.
C14_OneDisconnectNoOverlap ==
    /\ \A i, j \in DOMAIN resuming :
          i # j => resuming[i].old # resuming[j].old
    /\ Cardinality({s \in constructed :
                       \/ connected[s]
                       \/ \E a \in Attempts : /\ conn[a].owner = s
                                              /\ conn[a].phase \in {"dialing", "open"}}) <= 1

\* ---------------------------------------------------------------- C15
\* C15: when the connect() that setup() awaits fails at the transport
\* level (no debug override set), setup() completes without raising and
\* the button events are bound.
C15_SetupSwallowsConnectFailure ==
    [][\A a \in Attempts :
          (/\ env = Production
           /\ awaiting[a] = "setup"
           /\ last' = Op("transportFailed", a)) =>
              /\ outcome'["setup"] = "resolved"
              /\ eventsBound']_vars

\* ---------------------------------------------------------------- C16
\* C16: once a join has settled (the channel matched, or the retry budget
\* ran out) no poll attempt is scheduled, and no attempt is made after the
\* one that rejected the join.
C16_PollingStopsWhenSettled ==
    /\ join.status \in {"resolved", "rejected"} => ~join.timer
    /\ join.error = MaxRetryExceeded => join.retryCount = join.rejectedAt

\* ---------------------------------------------------------------- C17
\* C17: when the connect() that _connectMumble awaits succeeds on the
\* session in use and the configured default channel exists on the server,
\* _connectMumble calls the session's channel joiner and the call raises
\* nothing.
C17_DefaultChannelJoinIssued ==
    [][\A a \in Attempts :
          (/\ awaiting[a] # "none"
           /\ last' = Op("initialized", a)
           /\ conn[a].owner = mumble
           /\ mumbleConfig.defaultChannelName \in ServerChannels
           /\ outcome'[awaiting[a]] = "resolved") =>
              /\ joinError' = NoError
              /\ join'.status # "idle"]_vars

\* ---------------------------------------------------------------- C18
\* C18: a reconfigure call never fails at the disconnect of the previous
\* session: it goes on to build the new session from newConfig and to
\* connect it.
C18_ReconfigureAlwaysRebuilds ==
    [][last'.op = "reconfigure" =>
          /\ thrown' = NoError
          /\ outcome'["reconfigure"] = "pending"
          /\ resuming' = Append(resuming, [config |-> mumbleConfig', old |-> mumble])]_vars

\* ---------------------------------------------------------------- C19
\* C19: whenever micLatch is true, transmitting is true.
C19_LatchImpliesTransmitting == micLatch => transmitting

\* ---------------------------------------------------------------- C20
\* C20: a session is connected only if one of its connect() calls was
\* resolved: the ready signal of a connect() call that was rejected does
\* not mark the session connected.
C20_ConnectedNeedsResolvedConnect ==
    \A s \in constructed :
        connected[s] => \E a \in Attempts : /\ conn[a].owner = s
                                            /\ conn[a].ready
                                            /\ conn[a].promise = "resolved"

=============================================================================
